---- MODULE Spec2Model ----
(***************************************************************************)
(* CHIP-8 emulator (src/src/main.rs): the opcode decoder parse_opcode, the *)
(* machine state Chip8, load_rom, the engine step with its sprite blit,    *)
(* and the drive loop of main.                                             *)
(*                                                                         *)
(* Vectors are sequences; the code's 0-based index i is At(vec, i).        *)
(* A Rust panic (index out of bounds, expect on None, checked arithmetic)  *)
(* ends the run: step returns no Chip8, the variable panic records why.    *)
(***************************************************************************)
EXTENDS Integers, Sequences, FiniteSets, TLC

VARIABLES
    chip8,            \* main's `let mut chip8`: the Chip8 record, or NoChip8 before init()
    overflow_checks,  \* build profile: TRUE = arithmetic overflow panics, FALSE = it wraps
    iter,             \* number of completed iterations of main's for loop
    panic,            \* "none", or the reason the process panicked
    hist,             \* the last two completed steps: the Chip8 passed to step and
                      \* the meta_opcode it decoded (the line step prints)
    word,             \* the u16 passed to parse_opcode called on its own, or NoWord
    decoded           \* the MetaOpcode that call returned, or NoMeta before it returns

vars == <<chip8, overflow_checks, iter, panic, hist, word, decoded>>

----------------------------------------------------------------------------
(* Bounds of the model *)

\* ROMs are sequences of at most MaxRomWords 16-bit words drawn from RomWords
MaxRomWords == 3

\* iteration budget of the drive loop (main runs 1200 iterations)
MaxSteps == 4

\* iteration budget of the drive loop in the runs of nested calls
MaxCallDepth == 17

----------------------------------------------------------------------------
(* Program constants *)

MemorySize == 4096
RomStart == 512
NumRegs == 16
DisplayWidth == 64
DisplayHeight == 32

DisplaySize == DisplayWidth * DisplayHeight

\* 0-based indexing of a Vec
At(vec, i) == vec[i + 1]

InBounds(vec, i) == i >= 0 /\ i < Len(vec)

Zeros(n) == SubSeq([i \in 1..n |-> 0], 1, n)

Falses(n) == SubSeq([i \in 1..n |-> FALSE], 1, n)

\* a shift that rounds up instead of dropping the low bits
Shr_rounding_up(b, k) == (b + (2 ^ k) - 1) \div (2 ^ k)

\* b >> k on unsigned integers
Shr(b, k) == b \div (2 ^ k)

\* a & b on integers of `bits` bits
RECURSIVE BitAnd(_, _, _)
BitAnd(a, b, bits) ==
    IF bits = 0 \/ a = 0 \/ b = 0 THEN 0
    ELSE ((a % 2) * (b % 2)) + 2 * BitAnd(a \div 2, b \div 2, bits - 1)

----------------------------------------------------------------------------
(* fn init() -> Chip8 *)

init ==
    [ memory          |-> Zeros(MemorySize),
      v               |-> Zeros(NumRegs),
      reg_i           |-> 0,
      program_counter |-> RomStart,
      stack           |-> << >>,
      delay_timer     |-> 0,
      sound_timer     |-> 0,
      keyboard        |-> Falses(NumRegs),
      display_memory  |-> Falses(DisplaySize),
      rng             |-> FALSE ]

----------------------------------------------------------------------------
(* fn parse_opcode(opcode: u16) -> MetaOpcode *)

FlowControl(opcode) == [meta |-> "FlowControl", opcode |-> opcode]

Regular(opcode) == [meta |-> "Regular", opcode |-> opcode]

\* Unknown that forgets the word
Unknown_without_word(raw) == [meta |-> "Unknown", raw |-> 0]

Unknown(raw) == [meta |-> "Unknown", raw |-> raw]

OpX(name, x) == [name |-> name, x |-> x]

OpXY(name, x, y) == [name |-> name, x |-> x, y |-> y]

OpXVal(name, x, value) == [name |-> name, x |-> x, value |-> value]

OpAddr(name, addr) == [name |-> name, addr |-> addr]

parse_opcode(opcode) ==
    LET a == BitAnd(15, Shr(opcode, 12), 16)
        b == BitAnd(15, Shr(opcode, 8), 16)
        c == BitAnd(15, Shr(opcode, 4), 16)
        d == BitAnd(15, Shr(opcode, 0), 16)
        nnn == BitAnd(4095, opcode, 16)
        kk == BitAnd(255, opcode, 16)
    IN  IF a = 0 /\ b = 0 /\ c = 14 /\ d = 0 THEN Regular([name |-> "ClearScreen"])
        ELSE IF a = 0 /\ b = 0 /\ c = 14 /\ d = 14 THEN FlowControl([name |-> "Return"])
        ELSE IF a = 0 THEN Regular([name |-> "SysCall"])
        ELSE IF a = 1 THEN FlowControl(OpAddr("Jump", nnn))
        ELSE IF a = 2 THEN FlowControl(OpAddr("Call", nnn))
        ELSE IF a = 3 THEN Regular(OpXVal("SkipIfRegValEqual", b, kk))
        ELSE IF a = 4 THEN Regular(OpXVal("SkipIfRegValNotEqual", b, kk))
        ELSE IF a = 5 /\ d = 0 THEN Regular(OpXY("SkipIfRegRegEqual", b, c))
        ELSE IF a = 6 THEN Regular(OpXVal("LoadValToReg", b, kk))
        ELSE IF a = 7 THEN Regular(OpXVal("AddValToReg", b, kk))
        ELSE IF a = 8 /\ d = 0 THEN Regular(OpXY("LoadRegToReg", b, c))
        ELSE IF a = 8 /\ d = 1 THEN Regular(OpXY("OrRegReg", b, c))
        ELSE IF a = 8 /\ d = 2 THEN Regular(OpXY("AndRegReg", b, c))
        ELSE IF a = 8 /\ d = 3 THEN Regular(OpXY("XorRegReg", b, c))
        ELSE IF a = 8 /\ d = 4 THEN Regular(OpXY("AddRegToReg", b, c))
        ELSE IF a = 8 /\ d = 5 THEN Regular(OpXY("SubRegFromReg", b, c))
        ELSE IF a = 8 /\ d = 6 THEN Regular(OpX("ShiftLeftReg", b))
        ELSE IF a = 8 /\ d = 7 THEN Regular(OpXY("SubnRegFromReg", b, c))
        ELSE IF a = 8 /\ d = 14 THEN Regular(OpX("ShiftRightReg", b))
        ELSE IF a = 9 /\ d = 0 THEN Regular(OpXY("SkipIfRegRegNotEqual", b, c))
        ELSE IF a = 10 THEN Regular([name |-> "LoadValToI", value |-> nnn])
        ELSE IF a = 11 THEN FlowControl(OpAddr("JumpPlusV0", nnn))
        ELSE IF a = 12 THEN Regular(OpXVal("LoadRandomAndValToReg", b, kk))
        ELSE IF a = 13 THEN Regular([name |-> "DrawSprite", x |-> b, y |-> c, n |-> d])
        ELSE IF a = 14 /\ c = 9 /\ d = 14 THEN Regular(OpX("SkipIfKeyPressed", b))
        ELSE IF a = 14 /\ c = 10 /\ d = 1 THEN Regular(OpX("SkipIfKeyNotPressed", b))
        ELSE IF a = 15 /\ c = 0 /\ d = 7 THEN Regular(OpX("LoadDelayTimerToReg", b))
        ELSE IF a = 15 /\ c = 0 /\ d = 10 THEN Regular(OpX("LoadKeyToReg", b))
        ELSE IF a = 15 /\ c = 1 /\ d = 5 THEN Regular(OpX("LoadRegToDelayTimer", b))
        ELSE IF a = 15 /\ c = 1 /\ d = 8 THEN Regular(OpX("LoadRegToSoundTimer", b))
        ELSE IF a = 15 /\ c = 1 /\ d = 14 THEN Regular(OpX("AddRegToI", b))
        ELSE IF a = 15 /\ c = 2 /\ d = 9 THEN Regular(OpX("LoadSpriteLocationToI", b))
        ELSE IF a = 15 /\ c = 3 /\ d = 3 THEN Regular(OpX("LoadRegBcdToMem", b))
        ELSE IF a = 15 /\ c = 5 /\ d = 5 THEN Regular([name |-> "LoadRegsToMem", n |-> b])
        ELSE IF a = 15 /\ c = 6 /\ d = 5 THEN Regular([name |-> "LoadMemToRegs", n |-> b])
        ELSE Unknown(opcode)

----------------------------------------------------------------------------
(* fn load_rom(chip8: Chip8, filename: &str) -> Chip8, the file's bytes given as rom *)

\* memory.splice(512.., rom): the range 512..len is removed and rom put in its place
splice_from(memory, start, rom) == SubSeq(memory, 1, start) \o rom

load_rom(c, rom) == [c EXCEPT !.memory = splice_from(c.memory, RomStart, rom)]

----------------------------------------------------------------------------
(* Vec helpers *)

\* push refusing a 17th entry, as a stack of 16 levels would
push_capped(vec, x) == IF Len(vec) >= 16 THEN vec ELSE Append(vec, x)

push(vec, x) == Append(vec, x)

\* pop is called on a non-empty vec only; the empty case is the expect() panic in step
pop(vec) == [vec |-> SubSeq(vec, 1, Len(vec) - 1), x |-> vec[Len(vec)]]

replace(vec, i, x) == [vec EXCEPT ![i + 1] = x]

\* the bits least-significant first
byte_to_bits_lsb_first(b) == [k \in 1..8 |-> 1 = BitAnd(1, Shr(b, k - 1), 8)]

byte_to_bits(b) ==
    << 1 = BitAnd(1, Shr(b, 7), 8),
       1 = BitAnd(1, Shr(b, 6), 8),
       1 = BitAnd(1, Shr(b, 5), 8),
       1 = BitAnd(1, Shr(b, 4), 8),
       1 = BitAnd(1, Shr(b, 3), 8),
       1 = BitAnd(1, Shr(b, 2), 8),
       1 = BitAnd(1, Shr(b, 1), 8),
       1 = BitAnd(1, Shr(b, 0), 8) >>

----------------------------------------------------------------------------
(* fn step(chip8: Chip8) -> Chip8 *)

\* what step gives: a new Chip8, or a panic (then chip8 is the value passed in)
Ok(c) == [panic |-> "none", chip8 |-> c]

Panicked(c, why) == [panic |-> why, chip8 |-> c]

\* a + b on unsigned integers of `bits` bits: overflow panics in a build with
\* overflow checks and wraps otherwise
AddOverflows(a, b, bits) == a + b >= 2 ^ bits

WrappingAdd(a, b, bits) == (a + b) % (2 ^ bits)

\* the 16-bit word at program_counter, big-endian
raw_opcode(c) ==
    (At(c.memory, c.program_counter) * 256)
        + At(c.memory, WrappingAdd(c.program_counter, 1, 16))

\* why the fetch panics, "none" if it does not
fetch_panic(c, oc) ==
    IF ~InBounds(c.memory, c.program_counter) THEN "index"
    ELSE IF AddOverflows(c.program_counter, 1, 16) /\ oc THEN "overflow"
    ELSE IF ~InBounds(c.memory, WrappingAdd(c.program_counter, 1, 16)) THEN "index"
    ELSE "none"

\* Jump followed by the + 2 of the Regular arm
Jump_then_advance(c, addr) == Ok([c EXCEPT !.program_counter = addr + 2])

Jump(c, addr) == Ok([c EXCEPT !.program_counter = addr])

\* JumpPlusV0 going to addr alone
JumpPlusV0_without_v0(c, addr, oc) == Ok([c EXCEPT !.program_counter = addr])

JumpPlusV0(c, addr, oc) ==
    IF AddOverflows(addr, At(c.v, 0), 16) /\ oc THEN Panicked(c, "overflow")
    ELSE Ok([c EXCEPT !.program_counter = WrappingAdd(addr, At(c.v, 0), 16)])

\* Call pushing the address of the next instruction instead of its own
Call_push_next(c, addr) ==
    Ok([c EXCEPT !.program_counter = addr,
                 !.stack = push(c.stack, c.program_counter + 2)])

Call(c, addr) ==
    Ok([c EXCEPT !.program_counter = addr,
                 !.stack = push(c.stack, c.program_counter)])

\* Return taking address 0 from an empty stack instead of failing
Return_or_zero(c) ==
    IF Len(c.stack) = 0 THEN Ok([c EXCEPT !.program_counter = 0])
    ELSE LET r == pop(c.stack)
         IN  Ok([c EXCEPT !.program_counter = r.x, !.stack = r.vec])

\* Return going to the instruction after the one whose address was pushed
Return_to_next_instruction(c) ==
    IF Len(c.stack) = 0 THEN Panicked(c, "pop")
    ELSE LET r == pop(c.stack)
         IN  Ok([c EXCEPT !.program_counter = r.x + 2, !.stack = r.vec])

Return(c) ==
    IF Len(c.stack) = 0 THEN Panicked(c, "pop")
    ELSE LET r == pop(c.stack)
         IN  Ok([c EXCEPT !.program_counter = r.x, !.stack = r.vec])

LoadValToReg(c, x, value) == Ok([c EXCEPT !.v = replace(c.v, x, value)])

LoadValToI(c, value) == Ok([c EXCEPT !.reg_i = value])

\* chip8.rng as u8
bool_as_u8(b) == IF b THEN 1 ELSE 0

\* the random byte taken as 0x00 / 0xFF instead of 0 / 1
LoadRandomAndValToReg_all_ones(c, x, value) ==
    Ok([c EXCEPT !.v = replace(c.v, x, IF c.rng THEN value ELSE 0),
                 !.rng = ~c.rng])

LoadRandomAndValToReg(c, x, value) ==
    Ok([c EXCEPT !.v = replace(c.v, x, BitAnd(bool_as_u8(c.rng), value, 8)),
                 !.rng = ~c.rng])

AddValToReg(c, x, value, oc) ==
    IF AddOverflows(At(c.v, x), value, 8) /\ oc THEN Panicked(c, "overflow")
    ELSE Ok([c EXCEPT !.v = replace(c.v, x, WrappingAdd(At(c.v, x), value, 8))])

\* the skip taken when the register differs from the value
SkipIfRegValEqual_inverted(c, x, value, oc) ==
    IF At(c.v, x) # value
    THEN Ok([c EXCEPT !.program_counter = WrappingAdd(c.program_counter, 2, 16)])
    ELSE Ok(c)

SkipIfRegValEqual(c, x, value, oc) ==
    IF At(c.v, x) = value
    THEN IF AddOverflows(c.program_counter, 2, 16) /\ oc THEN Panicked(c, "overflow")
         ELSE Ok([c EXCEPT !.program_counter = WrappingAdd(c.program_counter, 2, 16)])
    ELSE Ok(c)

\* the framebuffer index of column xx, row yy of a sprite drawn at (start_x, start_y)
pixel_pos(start_x, start_y, xx, yy) ==
    ((start_x + xx) % DisplayWidth) + (((start_y + yy) % DisplayHeight) * DisplayWidth)

\* the inner loop with vf following the last pixel: a pixel that does not
\* collide resets it
RECURSIVE draw_line_vf_of_last_pixel(_, _, _, _, _, _)
draw_line_vf_of_last_pixel(acc, line, start_x, start_y, yy, xx) ==
    IF xx >= 8 THEN acc
    ELSE LET pix == At(line, xx)
             pos == pixel_pos(start_x, start_y, xx, yy)
             xored == At(acc.dm, pos) # pix
             vf1 == IF (At(acc.dm, pos) = TRUE) /\ (xored = FALSE) THEN 1 ELSE 0
         IN  draw_line_vf_of_last_pixel([dm |-> replace(acc.dm, pos, xored), vf |-> vf1],
                                        line, start_x, start_y, yy, xx + 1)

\* the inner for loop of DrawSprite: row yy, column xx onwards; acc is the
\* loop's mutable state, dm and vf
RECURSIVE draw_line(_, _, _, _, _, _)
draw_line(acc, line, start_x, start_y, yy, xx) ==
    IF xx >= 8 THEN acc
    ELSE LET pix == At(line, xx)
             pos == pixel_pos(start_x, start_y, xx, yy)
             xored == At(acc.dm, pos) # pix
             vf1 == IF (At(acc.dm, pos) = TRUE) /\ (xored = FALSE) THEN 1 ELSE acc.vf
         IN  draw_line([dm |-> replace(acc.dm, pos, xored), vf |-> vf1],
                       line, start_x, start_y, yy, xx + 1)

\* the outer for loop of DrawSprite: row yy onwards (a row is bound by the
\* quantifier so that it is computed before the next one starts)
RECURSIVE draw_loop(_, _, _, _, _)
draw_loop(acc, lines, start_x, start_y, yy) ==
    IF yy >= Len(lines) THEN acc
    ELSE CHOOSE r \in {draw_loop(row, lines, start_x, start_y, yy + 1) :
                          row \in {draw_line(acc, At(lines, yy), start_x, start_y, yy, 0)}} :
             TRUE

\* DrawSprite blitting onto a cleared screen instead of the current one
DrawSprite_on_cleared_screen(c, x, y, n, oc) ==
    IF AddOverflows(c.reg_i, n, 16) /\ oc THEN Panicked(c, "overflow")
    ELSE LET from == c.reg_i
             to == WrappingAdd(c.reg_i, n, 16)
         IN  IF from > to \/ to > Len(c.memory) THEN Panicked(c, "expect")
             ELSE LET lines == [yy \in 1..(to - from) |->
                                    byte_to_bits(At(c.memory, from + yy - 1))]
                      r == draw_loop([dm |-> Falses(DisplaySize), vf |-> 0], lines,
                                     At(c.v, x), At(c.v, y), 0)
                  IN  Ok([c EXCEPT !.display_memory = r.dm,
                                   !.v = replace(c.v, 15, r.vf)])

DrawSprite(c, x, y, n, oc) ==
    IF AddOverflows(c.reg_i, n, 16) /\ oc THEN Panicked(c, "overflow")
    ELSE LET from == c.reg_i
             to == WrappingAdd(c.reg_i, n, 16)
         IN  \* memory.get(from..to) is None when the range is not within memory
             IF from > to \/ to > Len(c.memory) THEN Panicked(c, "expect")
             ELSE LET lines == [yy \in 1..(to - from) |->
                                    byte_to_bits(At(c.memory, from + yy - 1))]
                      r == draw_loop([dm |-> c.display_memory, vf |-> 0], lines,
                                     At(c.v, x), At(c.v, y), 0)
                  IN  Ok([c EXCEPT !.display_memory = r.dm,
                                   !.v = replace(c.v, 15, r.vf)])

\* the inner match with an arm for ClearScreen that blanks the screen
regular_with_clear_screen(c, opcode, oc) ==
    IF opcode.name = "ClearScreen"
        THEN Ok([c EXCEPT !.display_memory = Falses(DisplaySize)])
    ELSE IF opcode.name = "LoadValToReg" THEN LoadValToReg(c, opcode.x, opcode.value)
    ELSE IF opcode.name = "LoadValToI" THEN LoadValToI(c, opcode.value)
    ELSE IF opcode.name = "LoadRandomAndValToReg"
        THEN LoadRandomAndValToReg(c, opcode.x, opcode.value)
    ELSE IF opcode.name = "AddValToReg" THEN AddValToReg(c, opcode.x, opcode.value, oc)
    ELSE IF opcode.name = "SkipIfRegValEqual"
        THEN SkipIfRegValEqual(c, opcode.x, opcode.value, oc)
    ELSE IF opcode.name = "DrawSprite"
        THEN DrawSprite(c, opcode.x, opcode.y, opcode.n, oc)
    ELSE Ok(c)

\* the inner match of the Regular arm
regular(c, opcode, oc) ==
    IF opcode.name = "SysCall" THEN Ok(c)
    ELSE IF opcode.name = "LoadValToReg" THEN LoadValToReg(c, opcode.x, opcode.value)
    ELSE IF opcode.name = "LoadValToI" THEN LoadValToI(c, opcode.value)
    ELSE IF opcode.name = "LoadRandomAndValToReg"
        THEN LoadRandomAndValToReg(c, opcode.x, opcode.value)
    ELSE IF opcode.name = "AddValToReg" THEN AddValToReg(c, opcode.x, opcode.value, oc)
    ELSE IF opcode.name = "SkipIfRegValEqual"
        THEN SkipIfRegValEqual(c, opcode.x, opcode.value, oc)
    ELSE IF opcode.name = "DrawSprite"
        THEN DrawSprite(c, opcode.x, opcode.y, opcode.n, oc)
    ELSE Ok(c)

\* the program counter advanced by one, as if it counted words
advance_by_one(res, oc) ==
    IF res.panic # "none" THEN res
    ELSE Ok([res.chip8 EXCEPT
                !.program_counter = WrappingAdd(res.chip8.program_counter, 1, 16)])

\* the advance with the delay timer counting down (wrapping) on every instruction
advance_with_timer_tick(res, oc) ==
    IF res.panic # "none" THEN res
    ELSE Ok([res.chip8 EXCEPT
                !.program_counter = WrappingAdd(res.chip8.program_counter, 2, 16),
                !.delay_timer = (@ + 255) % 256])

\* Chip8 { program_counter : res.program_counter + 2, .. res }
advance(res, oc) ==
    IF res.panic # "none" THEN res
    ELSE IF AddOverflows(res.chip8.program_counter, 2, 16) /\ oc
        THEN Panicked(res.chip8, "overflow")
    ELSE Ok([res.chip8 EXCEPT
                !.program_counter = WrappingAdd(res.chip8.program_counter, 2, 16)])

flow_control(c, opcode, oc) ==
    IF opcode.name = "Jump" THEN Jump(c, opcode.addr)
    ELSE IF opcode.name = "JumpPlusV0" THEN JumpPlusV0(c, opcode.addr, oc)
    ELSE IF opcode.name = "Call" THEN Call(c, opcode.addr)
    ELSE Return(c)

unknown(c) == Ok(c)

execute(c, meta_opcode, oc) ==
    IF meta_opcode.meta = "FlowControl" THEN flow_control(c, meta_opcode.opcode, oc)
    ELSE IF meta_opcode.meta = "Regular"
        THEN LET res == regular(c, meta_opcode.opcode, oc)
             IN  IF res.panic # "none" THEN Panicked(c, res.panic) ELSE advance(res, oc)
    ELSE unknown(c)

\* a fetch outside memory read as the word 0 instead of failing
step_unchecked_fetch(c, oc) ==
    IF fetch_panic(c, oc) # "none" THEN execute(c, parse_opcode(0), oc)
    ELSE execute(c, parse_opcode(raw_opcode(c)), oc)

step(c, oc) ==
    IF fetch_panic(c, oc) # "none" THEN Panicked(c, fetch_panic(c, oc))
    ELSE execute(c, parse_opcode(raw_opcode(c)), oc)

----------------------------------------------------------------------------
(* fn main(): init(), load_rom, then the for loop over step *)

NoChip8 == [program_counter |-> -1]

\* no call of parse_opcode on its own is under way
NoWord == "none"

NoMeta == [meta |-> "none"]

\* the words ROMs are made of
RomWords ==
    { 28927,   \* 70FF  AddValToReg { x: 0, value: FF }
      49155,   \* C003  LoadRandomAndValToReg { x: 0, value: 3 }
      12288,   \* 3000  SkipIfRegValEqual { x: 0, value: 0 }
      8706,    \* 2202  Call { addr: 202 }
      8708,    \* 2204  Call { addr: 204 }
      238,     \* 00EE  Return
      8191,    \* 1FFF  Jump { addr: FFF }
      45570,   \* B202  JumpPlusV0 { addr: 202 }
      41472,   \* A200  LoadValToI { value: 200 }
      53250,   \* D002  DrawSprite { x: 0, y: 0, n: 2 }
      20481,   \* 5001  Unknown
      224 }    \* 00E0  ClearScreen

\* the bytes of a sequence of words, big-endian
word_bytes(words) ==
    [i \in 1..(2 * Len(words)) |->
        IF i % 2 = 1 THEN words[(i + 1) \div 2] \div 256 ELSE words[i \div 2] % 256]

ShortRoms == {word_bytes(ws) : ws \in UNION {[1..n -> RomWords] : n \in 0..MaxRomWords}}

\* ROMs that fill memory to its end: one word, then zeros
FullRoms == {word_bytes(<<w>>) \o Zeros(MemorySize - RomStart - 2) : w \in RomWords}

Roms == ShortRoms \cup FullRoms

\* the last two entries of hist with the step from c appended
remember(h, c) ==
    LET all == Append(h, [chip8 |-> c, meta_opcode |-> parse_opcode(raw_opcode(c))])
    IN  IF Len(all) <= 2 THEN all ELSE SubSeq(all, Len(all) - 1, Len(all))

Init ==
    /\ chip8 = NoChip8
    /\ overflow_checks \in BOOLEAN
    /\ iter = 0
    /\ panic = "none"
    /\ hist = << >>
    /\ word = NoWord
    /\ decoded = NoMeta

\* let mut chip8 = init(); chip8 = load_rom(chip8, ...)
LoadRom ==
    /\ chip8 = NoChip8
    /\ \E rom \in Roms : chip8' = load_rom(init, rom)
    /\ UNCHANGED <<overflow_checks, iter, panic, hist, word, decoded>>

\* one iteration of the loop: chip8 = step(chip8)
Step ==
    /\ chip8 # NoChip8
    /\ panic = "none"
    /\ iter < MaxSteps
    /\ \E res \in {step(chip8, overflow_checks)} :
           /\ panic' = res.panic
           /\ chip8' = res.chip8
           /\ iter' = IF res.panic = "none" THEN iter + 1 ELSE iter
           /\ hist' = IF res.panic = "none" THEN remember(hist, chip8) ELSE hist
    /\ UNCHANGED <<overflow_checks, word, decoded>>

Next ==
    \/ LoadRom
    \/ Step

Spec == Init /\ [][Next]_vars

----------------------------------------------------------------------------
(* main with ROMs of calls and returns, run for MaxCallDepth iterations *)

CallWords ==
    { 8704,    \* 2200  Call { addr: 200 }
      8706,    \* 2202  Call { addr: 202 }
      238 }    \* 00EE  Return

CallRoms == {word_bytes(ws) : ws \in UNION {[1..n -> CallWords] : n \in 1..2}}

LoadCallRom ==
    /\ chip8 = NoChip8
    /\ \E rom \in CallRoms : chip8' = load_rom(init, rom)
    /\ UNCHANGED <<overflow_checks, iter, panic, hist, word, decoded>>

StepCalls ==
    /\ chip8 # NoChip8
    /\ panic = "none"
    /\ iter < MaxCallDepth
    /\ \E res \in {step(chip8, overflow_checks)} :
           /\ panic' = res.panic
           /\ chip8' = res.chip8
           /\ iter' = IF res.panic = "none" THEN iter + 1 ELSE iter
           /\ hist' = IF res.panic = "none" THEN remember(hist, chip8) ELSE hist
    /\ UNCHANGED <<overflow_checks, word, decoded>>

NextCalls ==
    \/ LoadCallRom
    \/ StepCalls

SpecCalls == Init /\ [][NextCalls]_vars

----------------------------------------------------------------------------
(* parse_opcode called on every u16, and step run on that word: the word is  *)
(* the fourth of a ROM whose first three words set v[0], set reg_i and draw  *)

\* the values of a u16
Words == 0..((2 ^ 16) - 1)

WordRomPrefix ==
    << 28927,   \* 70FF  AddValToReg { x: 0, value: FF }
       41472,   \* A200  LoadValToI { value: 200 }
       53250 >> \* D002  DrawSprite { x: 0, y: 0, n: 2 }

WordRom(w) == word_bytes(Append(WordRomPrefix, w))

\* the for loop of main: n iterations of chip8 = step(chip8) from c
RECURSIVE run(_, _, _)
run(c, oc, n) ==
    IF n = 0 THEN Ok(c)
    ELSE LET res == step(c, oc)
         IN  IF res.panic # "none" THEN res ELSE run(res.chip8, oc, n - 1)

\* the Chip8 after the three steps of the prefix (they overflow nowhere, so
\* the build does not matter, and they do not read the fourth word)
AtWordZero == run(load_rom(init, WordRom(0)), FALSE, Len(WordRomPrefix)).chip8

\* the Chip8 about to fetch w, the fourth word of WordRom(w)
AtWord(w) == [AtWordZero EXCEPT !.memory = load_rom(init, WordRom(w)).memory]

InitWords ==
    /\ chip8 = NoChip8
    /\ overflow_checks \in BOOLEAN
    /\ iter = 0
    /\ panic = "none"
    /\ hist = << >>
    /\ word \in Words
    /\ decoded = NoMeta

\* parse_opcode(word)
ParseOpcode ==
    /\ decoded = NoMeta
    /\ decoded' = parse_opcode(word)
    /\ UNCHANGED <<chip8, overflow_checks, iter, panic, hist, word>>

\* init, load_rom of WordRom(word), the steps of the prefix and the step that
\* fetches word; hist remembers the last of them
StepWord ==
    /\ decoded # NoMeta
    /\ chip8 = NoChip8
    /\ \E c \in {AtWord(word)} : \E res \in {step(c, overflow_checks)} :
           /\ panic' = res.panic
           /\ chip8' = res.chip8
           /\ iter' = Len(WordRomPrefix) + (IF res.panic = "none" THEN 1 ELSE 0)
           /\ hist' = IF res.panic = "none" THEN remember(<< >>, c) ELSE << >>
    /\ UNCHANGED <<overflow_checks, word, decoded>>

NextWords ==
    \/ ParseOpcode
    \/ StepWord

SpecWords == InitWords /\ [][NextWords]_vars

----------------------------------------------------------------------------
(* Vocabulary of the properties.  A step that completed is the pair          *)
(* (Before(1), chip8); the step before it is (Before(2), Before(1)).         *)

Loaded == chip8 # NoChip8

\* at least k steps have completed (and are remembered)
Stepped(k) == Len(hist) >= k

\* the Chip8 passed to the k-th last completed step
Before(k) == hist[Len(hist) - k + 1].chip8

\* the meta_opcode the k-th last completed step decoded
Ran(k) == hist[Len(hist) - k + 1].meta_opcode

\* the operands of the FlowControl or Regular instruction of the k-th last step
Op(k) == Ran(k).opcode

FetchOk(c) == fetch_panic(c, overflow_checks) = "none"

Decoded(c) == parse_opcode(raw_opcode(c))

\* the instruction c fetches is the FlowControl or Regular shape `name`
Fetches(c, name) ==
    /\ FetchOk(c)
    /\ \E m \in {Decoded(c)} : m.meta # "Unknown" /\ m.opcode.name = name

\* the k-th last completed step executed the FlowControl or Regular shape `name`
Executed(k, name) == Stepped(k) /\ Ran(k).meta # "Unknown" /\ Ran(k).opcode.name = name

ExecutedUnknown(k) == Stepped(k) /\ Ran(k).meta = "Unknown"

Top(stack) == stack[Len(stack)]

Even(n) == n % 2 = 0

----------------------------------------------------------------------------
\* C1: a step whose fetched word decodes to Unknown leaves every field
\* unchanged except program_counter, which it increases by exactly 2.
C1_UnknownAdvancesPc ==
    ExecutedUnknown(1)
        => chip8 = [Before(1) EXCEPT !.program_counter = @ + 2]

\* C2: Call{addr} immediately followed by Return gives back the state the
\* Call started from: program_counter, stack and every other field.
C2_CallThenReturnRestores ==
    (Executed(2, "Call") /\ Executed(1, "Return")) => chip8 = Before(2)

\* a Call at p with a non-empty stack went to addr with p pushed, and the
\* Return there came back to p
C2_Witness ==
    /\ Executed(2, "Call")
    /\ Executed(1, "Return")
    /\ Len(Before(2).stack) > 0
    /\ Before(1).program_counter = Op(2).addr
    /\ Before(1).stack = Append(Before(2).stack, Before(2).program_counter)
    /\ chip8.program_counter = Before(2).program_counter
    /\ chip8.stack = Before(2).stack

\* C3: AddValToReg{x, value} sets v[x] to (v[x] + value) mod 256 whatever the
\* sum, never fails on overflow, and program_counter advances by 2.
C3_AddValToRegWraps ==
    /\ Executed(1, "AddValToReg") =>
          LET c == Before(1)
              x == Op(1).x
              sum == At(c.v, x) + Op(1).value
          IN  chip8 = [c EXCEPT !.v = [c.v EXCEPT ![x + 1] = sum % 256],
                                !.program_counter = @ + 2]
    /\ ~(Loaded /\ panic # "none" /\ Fetches(chip8, "AddValToReg"))

----------------------------------------------------------------------------
\* program_counter and every return address on the stack are even
EvenState(c) ==
    /\ Even(c.program_counter)
    /\ \A i \in 1..Len(c.stack) : Even(c.stack[i])

\* c fetches a Jump or Call to an odd addr, or a JumpPlusV0 with addr + v[0] odd
OddTarget(c) ==
    /\ FetchOk(c)
    /\ \E m \in {Decoded(c)} :
          /\ m.meta = "FlowControl"
          /\ \/ m.opcode.name = "Jump" /\ ~Even(m.opcode.addr)
             \/ m.opcode.name = "Call" /\ ~Even(m.opcode.addr)
             \/ m.opcode.name = "JumpPlusV0" /\ ~Even(m.opcode.addr + At(c.v, 0))

\* C5 as stated: program_counter is even in every reachable state.
C5_PcAlwaysEven == Loaded => Even(chip8.program_counter)

\* C5 amended: program_counter is 512 after init and ROM load, and every step
\* other than a Jump or Call to an odd addr or a JumpPlusV0 with addr + v[0]
\* odd keeps program_counter and every stacked return address even.
C5_PcEvenUnlessOddTarget ==
    /\ []((Loaded /\ iter = 0) => (chip8.program_counter = RomStart /\ EvenState(chip8)))
    /\ [][(Loaded /\ EvenState(chip8) /\ ~OddTarget(chip8)) => EvenState(chip8')]_vars

\* a Return has popped an even address after a Call pushed it
C5_Witness ==
    /\ Stepped(2)
    /\ EvenState(Before(2)) /\ ~OddTarget(Before(2))
    /\ EvenState(Before(1)) /\ Executed(1, "Return")
    /\ EvenState(chip8)

FetchInBounds(c) ==
    /\ InBounds(c.memory, c.program_counter)
    /\ InBounds(c.memory, c.program_counter + 1)

\* C6 as stated: before each fetch, program_counter and program_counter + 1
\* are valid indices into memory.
\* (Stated here for the runs whose memory has its full 4096 bytes, where it fails too.)
C6_FetchAlwaysInBounds ==
    (Loaded /\ iter < MaxSteps /\ Len(chip8.memory) = MemorySize) => FetchInBounds(chip8)

\* C6 amended: every step that completes fetched its two bytes from valid
\* indices of memory; a state where program_counter or program_counter + 1 is
\* not a valid index is reachable, and the step from it fails (index panic)
\* and produces no successor state.
C6_FetchInBoundsOrFatal ==
    /\ Stepped(1) => FetchInBounds(Before(1))
    /\ (Loaded /\ ~FetchInBounds(chip8)) =>
           step(chip8, overflow_checks) = Panicked(chip8, "index")
    /\ panic = "index" => (~FetchInBounds(chip8) /\ ~ENABLED Step)

\* with memory of 4096 bytes the fetch failed on the second byte alone, after a Jump
C6_Witness ==
    /\ panic = "index"
    /\ Executed(1, "Jump")
    /\ Len(chip8.memory) = MemorySize
    /\ InBounds(chip8.memory, chip8.program_counter)
    /\ ~InBounds(chip8.memory, chip8.program_counter + 1)

\* C7: after init and load_rom of a ROM of r <= 3584 bytes, memory has 4096
\* bytes: 512 zeros, the ROM bytes, then zeros; and its length stays 4096.
C7_MemoryKeepsItsSize ==
    Loaded =>
        /\ Len(chip8.memory) = MemorySize
        /\ \E rom \in Roms :
              chip8.memory =
                  Zeros(RomStart) \o rom \o Zeros(MemorySize - RomStart - Len(rom))

\* C8: Return with an empty stack is fatal, the step produces no successor
\* state; with a non-empty stack it removes exactly the last-pushed entry and
\* sets program_counter to it.
C8_ReturnPopsOrFails ==
    /\ (Loaded /\ Fetches(chip8, "Return") /\ Len(chip8.stack) = 0) =>
           step(chip8, overflow_checks) = Panicked(chip8, "pop")
    /\ panic = "pop" =>
           (Fetches(chip8, "Return") /\ Len(chip8.stack) = 0 /\ ~ENABLED Step)
    /\ Executed(1, "Return") =>
           /\ Len(Before(1).stack) > 0
           /\ chip8 = [Before(1) EXCEPT
                          !.program_counter = Top(Before(1).stack),
                          !.stack = SubSeq(@, 1, Len(@) - 1)]

\* after at least one step a Return was fetched with nothing on the stack
C8_Witness ==
    /\ panic = "pop"
    /\ Stepped(1)
    /\ Fetches(chip8, "Return")
    /\ Len(chip8.stack) = 0

\* C9: SkipIfRegValEqual{x, value} advances program_counter by 4 when
\* v[x] = value and by 2 otherwise, and changes no other field.
C9_SkipIfRegValEqual ==
    Executed(1, "SkipIfRegValEqual") =>
        LET c == Before(1)
            by == IF At(c.v, Op(1).x) = Op(1).value THEN 4 ELSE 2
        IN  chip8 = [c EXCEPT !.program_counter = @ + by]

\* a skip was taken, right after the register compared was written
C9_Witness ==
    /\ Executed(1, "SkipIfRegValEqual")
    /\ chip8.program_counter = Before(1).program_counter + 4
    /\ Executed(2, "LoadRandomAndValToReg")
    /\ Op(2).x = Op(1).x

\* C10: DrawSprite{x, y, n} with start_x = v[x], start_y = v[y]: for every row
\* yy < n and column xx < 8 the pixel at ((start_x + xx) mod 64) +
\* 64 * ((start_y + yy) mod 32) becomes its old value XOR bit 7 - xx of
\* memory[reg_i + yy], and every other pixel is unchanged.
C10_DrawSpriteXorsPixels ==
    Executed(1, "DrawSprite") =>
        LET c == Before(1)
            n == Op(1).n
            start_x == At(c.v, Op(1).x)
            start_y == At(c.v, Op(1).y)
            Index(xx, yy) == ((start_x + xx) % 64) + (64 * ((start_y + yy) % 32))
            SpriteBit(xx, yy) == (At(c.memory, c.reg_i + yy) \div (2 ^ (7 - xx))) % 2 = 1
            touched == {Index(xx, yy) : xx \in 0..7, yy \in 0..(n - 1)}
        IN  /\ Len(chip8.display_memory) = 2048
            /\ \A yy \in 0..(n - 1), xx \in 0..7 :
                  At(chip8.display_memory, Index(xx, yy))
                      = (At(c.display_memory, Index(xx, yy)) # SpriteBit(xx, yy))
            /\ {i \in 0..2047 : At(chip8.display_memory, i) # At(c.display_memory, i)}
                  \subseteq touched

\* a sprite with lit bits was drawn across the right and bottom edges:
\* pixels are lit in column 0 and in row 0 as well as in column 63 or row 31
C10_Witness ==
    /\ Executed(1, "DrawSprite")
    /\ Op(1).n = 2
    /\ At(Before(1).v, Op(1).x) % 64 > 56
    /\ At(Before(1).v, Op(1).y) % 32 = 31
    /\ \E i \in 0..63 : At(chip8.display_memory, i)
    /\ \E i \in 0..31 : At(chip8.display_memory, 64 * i)
    /\ \E i \in 0..63 : At(chip8.display_memory, (64 * 31) + i)

----------------------------------------------------------------------------
\* the pixels of a DrawSprite{x, y, n} executed from c, as <<xx, yy>> pairs
SpritePixels(n) == (0..7) \X (0..(n - 1))

\* the framebuffer index DrawSprite{x, y, ..} executed from c gives pixel p
PixelIndex(c, x, y, p) ==
    ((At(c.v, x) + p[1]) % 64) + (64 * ((At(c.v, y) + p[2]) % 32))

\* pixel p was lit in c and is unlit in d
TurnedOff(c, d, i) == At(c.display_memory, i) /\ ~At(d.display_memory, i)

\* C11: after DrawSprite, v[0xF] is 1 if and only if at least one pixel the
\* draw touched was lit before and is unlit after, and 0 otherwise, whatever
\* v[0xF] was before; no other register changes.
C11_DrawSpriteCollisionFlag ==
    Executed(1, "DrawSprite") =>
        LET c == Before(1)
            collided == \E p \in SpritePixels(Op(1).n) :
                            TurnedOff(c, chip8, PixelIndex(c, Op(1).x, Op(1).y, p))
        IN  chip8.v = [c.v EXCEPT ![16] = IF collided THEN 1 ELSE 0]

\* a draw whose first pixel collided and whose last pixel did not
C11_Witness ==
    /\ Executed(1, "DrawSprite")
    /\ Op(1).n > 0
    /\ At(chip8.v, 15) = 1
    /\ TurnedOff(Before(1), chip8, PixelIndex(Before(1), Op(1).x, Op(1).y, <<0, 0>>))
    /\ ~TurnedOff(Before(1), chip8,
                  PixelIndex(Before(1), Op(1).x, Op(1).y, <<7, Op(1).n - 1>>))

----------------------------------------------------------------------------
\* bit 7 - xx of the sprite byte of row yy is set
SpriteBit(c, p) == (At(c.memory, c.reg_i + p[2]) \div (2 ^ (7 - p[1]))) % 2 = 1

\* the two last steps drew the same sprite bytes at the same start coordinates
DrewTwice ==
    /\ Executed(2, "DrawSprite")
    /\ Executed(1, "DrawSprite")
    /\ Op(2) = Op(1)
    /\ Before(2).reg_i = Before(1).reg_i
    /\ Before(2).memory = Before(1).memory
    /\ At(Before(2).v, Op(2).x) = At(Before(1).v, Op(1).x)
    /\ At(Before(2).v, Op(2).y) = At(Before(1).v, Op(1).y)

\* the region the first of the two draws touched was blank, and the sprite
\* has a lit bit
DrewOnBlank ==
    /\ \A p \in SpritePixels(Op(2).n) :
           ~At(Before(2).display_memory, PixelIndex(Before(2), Op(2).x, Op(2).y, p))
    /\ \E p \in SpritePixels(Op(2).n) : SpriteBit(Before(2), p)

\* C12: drawing the same sprite bytes twice at the same start coordinates
\* restores display_memory to what it was before the first draw; when the
\* touched region was blank and the sprite has a lit bit, the first draw
\* reports no collision and the second reports one.
C12_DrawTwiceRestores ==
    DrewTwice =>
        /\ chip8.display_memory = Before(2).display_memory
        /\ DrewOnBlank => (At(Before(1).v, 15) = 0 /\ At(chip8.v, 15) = 1)

\* a sprite with lit bits drawn twice on a blank region: lit after the first
\* draw, blank again after the second
C12_Witness ==
    /\ DrewTwice
    /\ DrewOnBlank
    /\ Before(1).display_memory # Before(2).display_memory
    /\ chip8.display_memory = Falses(DisplaySize)
    /\ At(chip8.v, 15) = 1

----------------------------------------------------------------------------
\* C13: Jump{addr} sets program_counter to exactly addr, the low 12 bits of
\* the word, adds no 2 to it, and changes no other field.
C13_JumpSetsPc ==
    Executed(1, "Jump") =>
        /\ Op(1).addr = raw_opcode(Before(1)) % 4096
        /\ chip8 = [Before(1) EXCEPT !.program_counter = Op(1).addr]

\* a Jump went to an address that is not the one after it
C13_Witness ==
    /\ Executed(1, "Jump")
    /\ chip8.program_counter = raw_opcode(Before(1)) % 4096
    /\ chip8.program_counter # Before(1).program_counter + 2

----------------------------------------------------------------------------
\* C16: JumpPlusV0{addr} sets program_counter to addr + v[0]; the sum is at
\* most 0x10FE, so it is the exact integer sum in every build and the step
\* never fails (a word decoded to JumpPlusV0 is executed to completion); no
\* 2 is added and no other field changes.
C16_JumpPlusV0ExactSum ==
    /\ Executed(1, "JumpPlusV0") =>
          LET sum == Op(1).addr + At(Before(1).v, 0)
          IN  /\ sum <= 4350
              /\ chip8 = [Before(1) EXCEPT !.program_counter = sum]
    /\ (Loaded /\ Fetches(chip8, "JumpPlusV0")) =>
           step(chip8, overflow_checks).panic = "none"
    /\ (Loaded /\ decoded = FlowControl(OpAddr("JumpPlusV0", word % 4096))) =>
           (panic = "none" /\ Executed(1, "JumpPlusV0") /\ Ran(1) = decoded)

\* a JumpPlusV0 with v[0] = 0xFF, in a build with overflow checks
C16_Witness ==
    /\ Executed(1, "JumpPlusV0")
    /\ overflow_checks
    /\ At(Before(1).v, 0) = 255
    /\ chip8.program_counter = Op(1).addr + 255

----------------------------------------------------------------------------
\* the nibbles of a word, most significant first
Nibble(w, k) == (w \div (16 ^ (3 - k))) % 16

\* w matches a row of the decode table other than the last
MatchesTable(w) ==
    LET a == Nibble(w, 0)
        d == Nibble(w, 3)
        kk == w % 256
    IN  \/ a \in {0, 1, 2, 3, 4, 6, 7, 10, 11, 12, 13}
        \/ a \in {5, 9} /\ d = 0
        \/ a = 8 /\ d \in (0..7) \cup {14}
        \/ a = 14 /\ kk \in {158, 161}
        \/ a = 15 /\ kk \in {7, 10, 21, 24, 30, 41, 51, 85, 101}

\* C14: parse_opcode returns, for every one of the 65536 words, exactly one
\* of FlowControl, Regular and Unknown; it returns Unknown(w), carrying the
\* word, exactly for the words that match no row of the table.
C14_ParseOpcodeTotal ==
    decoded # NoMeta =>
        /\ decoded.meta \in {"FlowControl", "Regular", "Unknown"}
        /\ decoded.meta = "Unknown" <=> ~MatchesTable(word)
        /\ decoded.meta = "Unknown" => decoded = [meta |-> "Unknown", raw |-> word]
        /\ decoded.meta # "Unknown" => DOMAIN decoded = {"meta", "opcode"}

\* 0x5xy1 with x, y not 0 was decoded to Unknown carrying the word
C14_Witness ==
    /\ decoded # NoMeta
    /\ decoded.meta = "Unknown"
    /\ Nibble(word, 0) = 5 /\ Nibble(word, 3) = 1
    /\ Nibble(word, 1) = 10 /\ Nibble(word, 2) = 11
    /\ decoded.raw = word

----------------------------------------------------------------------------
\* C15: of the words with leading nibble 0, 0x00E0 decodes to
\* Regular(ClearScreen), 0x00EE to FlowControl(Return) and every other one
\* to Regular(SysCall); none decodes to Unknown.
C15_LeadingNibbleZero ==
    (decoded # NoMeta /\ word < 4096) =>
        decoded = IF word = 224 THEN Regular([name |-> "ClearScreen"])
                  ELSE IF word = 238 THEN FlowControl([name |-> "Return"])
                  ELSE Regular([name |-> "SysCall"])

\* 0x00E1, between ClearScreen and Return, was decoded to SysCall
C15_Witness ==
    /\ decoded = Regular([name |-> "SysCall"])
    /\ word = 225

----------------------------------------------------------------------------
\* the Regular shapes the engine gives an effect of their own
ShapesWithEffect ==
    {"LoadValToReg", "LoadValToI", "LoadRandomAndValToReg", "AddValToReg",
     "SkipIfRegValEqual", "DrawSprite"}

\* the k-th last completed step executed a Regular shape outside ShapesWithEffect
ExecutedNoEffectShape(k) ==
    Stepped(k) /\ Ran(k).meta = "Regular" /\ Ran(k).opcode.name \notin ShapesWithEffect

\* C17: a step that executes a Regular shape other than LoadValToReg,
\* LoadValToI, LoadRandomAndValToReg, AddValToReg, SkipIfRegValEqual and
\* DrawSprite completes, leaves every field other than program_counter
\* unchanged (ClearScreen leaves display_memory lit) and adds 2 to
\* program_counter.
C17_OtherRegularShapesOnlyAdvance ==
    /\ ExecutedNoEffectShape(1) =>
           chip8 = [Before(1) EXCEPT !.program_counter = @ + 2]
    /\ (decoded # NoMeta /\ decoded.meta = "Regular"
            /\ decoded.opcode.name \notin ShapesWithEffect /\ Loaded)
           => (panic = "none" /\ ExecutedNoEffectShape(1) /\ Ran(1) = decoded)

\* ClearScreen was executed with pixels lit and v[0] = 0xFF, and they still are
C17_Witness ==
    /\ ExecutedNoEffectShape(1)
    /\ Op(1).name = "ClearScreen"
    /\ At(Before(1).v, 0) = 255
    /\ Before(1).display_memory # Falses(DisplaySize)
    /\ chip8.display_memory = Before(1).display_memory

----------------------------------------------------------------------------
\* C18: Call{addr} appends the program_counter it was fetched from to the
\* end of stack, keeps the earlier entries in order and sets program_counter
\* to addr; it never fails, whatever the length of the stack (16 and more
\* included), and the stack is one longer after it.
C18_CallPushesItsAddress ==
    /\ Executed(1, "Call") =>
           /\ chip8 = [Before(1) EXCEPT
                          !.program_counter = Op(1).addr,
                          !.stack = Before(1).stack \o <<Before(1).program_counter>>]
           /\ Len(chip8.stack) = Len(Before(1).stack) + 1
    /\ (Loaded /\ Fetches(chip8, "Call")) =>
           step(chip8, overflow_checks).panic = "none"

\* a Call executed with 16 entries on the stack, two of them different
C18_Witness ==
    /\ Executed(1, "Call")
    /\ Len(Before(1).stack) = 16
    /\ Len(chip8.stack) = 17
    /\ chip8.stack[1] # chip8.stack[2]
    /\ chip8.stack[17] = Before(1).program_counter

----------------------------------------------------------------------------
\* the first 512 bytes of memory after init
ZeroPage == Zeros(RomStart)

\* C19: in every state reached from init and load_rom by steps, memory is the
\* memory load_rom produced (every step leaves it as it got it, so bytes 0 to
\* 511 stay zero), delay_timer and sound_timer are 0 and the 16 keyboard
\* entries are false.
C19_EngineWritesNoMemoryTimersKeys ==
    /\ Loaded =>
           /\ SubSeq(chip8.memory, 1, RomStart) = ZeroPage
           /\ chip8.delay_timer = 0
           /\ chip8.sound_timer = 0
           /\ chip8.keyboard = Falses(16)
    /\ Stepped(1) => chip8.memory = Before(1).memory
    /\ Stepped(2) => Before(1).memory = Before(2).memory

\* MaxSteps steps have run, a draw among the last two, on a ROM that is not all zeros
C19_Witness ==
    /\ iter >= MaxSteps
    /\ Executed(1, "DrawSprite") \/ Executed(2, "DrawSprite")
    /\ chip8.memory # Zeros(Len(chip8.memory))
    /\ chip8.memory = Before(2).memory

----------------------------------------------------------------------------
\* the addr of the Call{addr} at 0x200 when addr holds a Return, -1 otherwise
CallReturnLoop(c) ==
    IF Len(c.memory) < RomStart + 2 \/ At(c.memory, RomStart) \div 16 # 2 THEN -1
    ELSE LET a == ((At(c.memory, RomStart) % 16) * 256) + At(c.memory, RomStart + 1)
         IN  IF a + 1 < Len(c.memory) /\ At(c.memory, a) = 0 /\ At(c.memory, a + 1) = 238
             THEN a ELSE -1

====
